---- MODULE Spec2Model ----
(***************************************************************************)
(* Model of the audio-feature fetch of spotify-playlist-generator:          *)
(*   src/src/audio_check.py      get_audio_features(spotify, track_ids)    *)
(*   src/src/data_collection.py  get_audio_features(track_ids) and         *)
(*                               collect_and_save_user_data()              *)
(*   src/src/spotify_auth.py     get_spotify_client()                      *)
(* The remote service (spotipy client) is the environment: every request   *)
(* either raises or returns a list of feature records / nulls.             *)
(*                                                                         *)
(* The code is sequential; one action is one pass through a loop body or    *)
(* one statement group of collect_and_save_user_data.  The step of the      *)
(* batch loop, the literal 20 in audio_check.py:52 and 10 in                *)
(* data_collection.py:87, is the variable chunk_size, fixed at the start    *)
(* of a call to a value in 1..MaxChunk, so that lists of at most MaxLen     *)
(* ids span several batches.  A feature record is kept as its id; the       *)
(* feature columns play no part in the control flow.                        *)
(*                                                                         *)
(* Lines 241-251 of data_collection.py (seed-genre filter and               *)
(* get_genre_recommendations) cannot be reached, because line 239 raises    *)
(* NameError whenever it is executed; they have no action here.             *)
(***************************************************************************)
EXTENDS Naturals, Sequences, FiniteSets

VARIABLES
    entry,          \* which function the caller invoked
    track_ids,      \* argument track_ids of get_audio_features
    chunk_size,     \* the batch step of the range() loop (literal 20 / 10)
    pc,             \* position in the running function
    i,              \* loop variable i of "for i in range(0, len(track_ids), step)"
    j,              \* data_collection: offset of track_id inside batch
    features_data,  \* local list features_data
    result,         \* value returned by get_audio_features (rows of the frame)
    trace,          \* what the call did to the outside: requests, sleeps, prints, saves
    top_tracks,     \* collect_and_save_user_data: ids of top_tracks_df
    top_artists,    \* collect_and_save_user_data: genres column of top_artists_df
    completed       \* "Data collection complete!" was printed

vars == << entry, track_ids, chunk_size, pc, i, j, features_data, result, trace,
           top_tracks, top_artists, completed >>

-----------------------------------------------------------------------------
(* Bounds of the model *)

\* longest track_ids list
MaxLen == 3
\* largest batch step tried (stands for the literals 20 and 10)
MaxChunk == 2
\* collect_and_save_user_data: most top tracks / top artists returned
MaxTop == 2

-----------------------------------------------------------------------------
(* Values *)

\* track ids; "" is the empty id that audio_check skips
TrackIds == {"a", "b"}
IdValues == TrackIds \cup {""}

\* reasons str(e) of an exception raised by a request
Reasons == {"429"}

\* a feature dict returned by the service, and the null entry it returns for
\* an id it does not know
Rec(x) == [id |-> x, null |-> FALSE]
Null == [id |-> "", null |-> TRUE]

NoResult == << [id |-> "no result", null |-> TRUE] >>

RECURSIVE SeqsUpTo(_, _)
SeqsUpTo(S, n) ==
    IF n = 0 THEN { <<>> }
    ELSE LET shorter == SeqsUpTo(S, n - 1)
         IN  shorter \cup { Append(s, x) : s \in { t \in shorter : Len(t) = n - 1 }, x \in S }

Min(a, b) == IF a < b THEN a ELSE b

\* (mutation of Slice: the window reaches one element into the next batch)
SliceOverlap(s, lo, hi) == SubSeq(s, lo + 1, Min(hi + 1, Len(s)))

\* Python s[lo:hi] on a list, lo and hi 0-based
Slice(s, lo, hi) == SubSeq(s, lo + 1, Min(hi, Len(s)))

\* (mutation of Truthy: the "if tid" filter is missing)
TruthyAll(tid) == TRUE

\* "if tid": Python truthiness of an id
Truthy(tid) == tid # ""

\* "if feature": Python truthiness of a returned slot
IsFeature(f) == ~f.null

\* (mutation of MoreBatches: the range runs one step too far)
MoreBatchesOffByOne(ix, ids) == ix <= Len(ids)

\* for i in range(0, len(track_ids), step): i is still inside the range
MoreBatches(ix, ids) == ix < Len(ids)

\* [tid for tid in track_ids[i:i+20] if tid]
BatchOf(ids, lo, step) == SelectSeq(Slice(ids, lo, lo + step), Truthy)

\* the slots of an answer that pass "if feature"
NonNull(features) == SelectSeq(features, IsFeature)

\* (mutation of ExtendWith: the "if feature" test is missing)
ExtendWithAll(data, features) == data \o features

\* for feature in features: if feature: features_data.append(feature)
ExtendWith(data, features) == data \o NonNull(features)

-----------------------------------------------------------------------------
(* The service.  For a request of the ids asked it may answer one slot per  *)
(* id (the record of that id, or null); it may answer every id and add one  *)
(* more record, of an id asked (a repeat) or not asked; it may answer with  *)
(* no slot at all.                                                          *)

RECURSIVE Honest(_)
Honest(asked) ==
    IF asked = <<>> THEN { <<>> }
    ELSE { <<f>> \o rest : f \in { Rec(Head(asked)), Null }, rest \in Honest(Tail(asked)) }

AllRecords(asked) == [k \in DOMAIN asked |-> Rec(asked[k])]

Responses(asked) ==
    Honest(asked)
      \cup { AllRecords(asked) \o << Rec(x) >> : x \in TrackIds }
      \cup { <<>> }

-----------------------------------------------------------------------------
(* Events of the trace *)

Event(kind, ids, ok, resp, num, text) ==
    [ev |-> kind, ids |-> ids, ok |-> ok, resp |-> resp, num |-> num, text |-> text]

\* spotify._get("audio-features?ids=...") / spotify.audio_features(track_id)
Request(ids, ok, resp, reason) == Event("request", ids, ok, resp, 0, reason)
\* time.sleep(secs)
Sleep(secs) == Event("sleep", <<>>, TRUE, <<>>, 0, secs)
\* (mutation of PrintBatch: the reason str(e) is left out of the line)
PrintBatchNoReason(n, reason) == Event("print", <<>>, TRUE, <<>>, n, "")

\* print(f"Error processing batch {n}: {reason}")
PrintBatch(n, reason) == Event("print", <<>>, TRUE, <<>>, n, reason)
\* print(f"Error getting features for track {track_id}: {reason}")
PrintTrack(tid, reason) == Event("print", <<tid>>, TRUE, <<>>, 0, reason)

-----------------------------------------------------------------------------
(* audio_check.get_audio_features *)

AfterFetch == IF entry = "collect" THEN "c_merge" ELSE "done"

\* (mutation of AC_Begin: the "if not track_ids" early return is missing)
AC_BeginNoGuard ==
    /\ pc = "start" /\ entry = "audio_check"
    /\ pc' = "batch"
    /\ features_data' = <<>>
    /\ i' = 0
    /\ UNCHANGED << entry, track_ids, chunk_size, j, result, trace, top_tracks,
                    top_artists, completed >>

AC_Begin ==
    /\ pc = "start" /\ entry = "audio_check"
    /\ IF track_ids = <<>>
       THEN /\ result' = <<>>
            /\ pc' = "done"
       ELSE /\ result' = result
            /\ pc' = "batch"
    /\ features_data' = <<>>
    /\ i' = 0
    /\ UNCHANGED << entry, track_ids, chunk_size, j, trace, top_tracks, top_artists, completed >>

AC_BatchOk ==
    /\ pc = "batch" /\ entry = "audio_check"
    /\ MoreBatches(i, track_ids)
    /\ LET batch == BatchOf(track_ids, i, chunk_size)
       IN  \E features \in Responses(batch) :
             /\ features_data' = ExtendWith(features_data, features)
             /\ trace' = trace \o << Request(batch, TRUE, features, ""), Sleep("0.5") >>
    /\ i' = i + chunk_size
    /\ UNCHANGED << entry, track_ids, chunk_size, pc, j, result, top_tracks, top_artists, completed >>

\* (mutation of AC_BatchFail: no except clause, the exception leaves the function)
AC_BatchFailRaises ==
    /\ pc = "batch" /\ entry = "audio_check"
    /\ MoreBatches(i, track_ids)
    /\ LET batch == BatchOf(track_ids, i, chunk_size)
       IN  \E e \in Reasons :
             trace' = Append(trace, Request(batch, FALSE, <<>>, e))
    /\ pc' = "raised"
    /\ UNCHANGED << entry, track_ids, chunk_size, i, j, features_data, result,
                    top_tracks, top_artists, completed >>

AC_BatchFail ==
    /\ pc = "batch" /\ entry = "audio_check"
    /\ MoreBatches(i, track_ids)
    /\ LET batch == BatchOf(track_ids, i, chunk_size)
       IN  \E e \in Reasons :
             trace' = trace \o << Request(batch, FALSE, <<>>, e),
                                  PrintBatch((i \div chunk_size) + 1, e) >>
    /\ i' = i + chunk_size
    /\ UNCHANGED << entry, track_ids, chunk_size, pc, j, features_data, result,
                    top_tracks, top_artists, completed >>

AC_Return ==
    /\ pc = "batch" /\ entry = "audio_check"
    /\ ~MoreBatches(i, track_ids)
    /\ result' = features_data
    /\ pc' = "done"
    /\ UNCHANGED << entry, track_ids, chunk_size, i, j, features_data, trace,
                    top_tracks, top_artists, completed >>

-----------------------------------------------------------------------------
(* spotify_auth.get_spotify_client: the client is built and returned        *)
(* whatever the token lookup says; the lookup's outcome is only printed.    *)

\* token_info truthy / token_info falsy / get_cached_token raised
AuthOutcomes == {"ok", "no_token", "token_error"}

\* "if token_info": only then is "Access token acquired successfully." printed
TokenAcquired(o) == o = "ok"

\* one call of get_spotify_client(): "return spotify" is reached on every outcome
ClientReturned(o) == o \in AuthOutcomes

\* the trace keeps of the call whether the token was acquired
GetSpotifyClient(o) == Event("auth", <<>>, TokenAcquired(o), <<>>, 0, "get_spotify_client")

-----------------------------------------------------------------------------
(* data_collection.get_audio_features *)

DC_Begin ==
    /\ pc = "start" /\ entry \in {"data_collection", "collect"}
    /\ \E o \in AuthOutcomes :
         /\ ClientReturned(o)
         /\ trace' = Append(trace, GetSpotifyClient(o))
    /\ IF track_ids = <<>>
       THEN /\ result' = <<>>
            /\ pc' = AfterFetch
       ELSE /\ result' = result
            /\ pc' = "track"
    /\ features_data' = <<>>
    /\ i' = 0
    /\ j' = 0
    /\ UNCHANGED << entry, track_ids, chunk_size, top_tracks, top_artists, completed >>

\* the inner loop "for track_id in batch" still has a track to visit
InBatch == MoreBatches(i, track_ids) /\ j < Len(Slice(track_ids, i, i + chunk_size))

\* feature = spotify.audio_features(track_id)[0] returned; append; sleep(0.1)
DC_TrackOk ==
    /\ pc = "track" /\ InBatch
    /\ LET track_id == track_ids[i + j + 1]
       IN  \E features \in Responses(<<track_id>>) :
             /\ features # <<>>
             /\ features_data' = ExtendWith(features_data, << features[1] >>)
             /\ trace' = trace \o << Request(<<track_id>>, TRUE, features, ""), Sleep("0.1") >>
    /\ j' = j + 1
    /\ UNCHANGED << entry, track_ids, chunk_size, pc, i, result, top_tracks, top_artists, completed >>

\* the request raised, or the list it returned has no element 0
DC_TrackFail ==
    /\ pc = "track" /\ InBatch
    /\ LET track_id == track_ids[i + j + 1]
       IN  \/ \E e \in Reasons :
                trace' = trace \o << Request(<<track_id>>, FALSE, <<>>, e),
                                     PrintTrack(track_id, e) >>
           \/ trace' = trace \o << Request(<<track_id>>, TRUE, <<>>, ""),
                                   PrintTrack(track_id, "list index out of range") >>
    /\ j' = j + 1
    /\ UNCHANGED << entry, track_ids, chunk_size, pc, i, features_data, result,
                    top_tracks, top_artists, completed >>

\* the batch is exhausted: time.sleep(1), next i
DC_BatchEnd ==
    /\ pc = "track"
    /\ MoreBatches(i, track_ids) /\ ~InBatch
    /\ trace' = Append(trace, Sleep("1"))
    /\ i' = i + chunk_size
    /\ j' = 0
    /\ UNCHANGED << entry, track_ids, chunk_size, pc, features_data, result,
                    top_tracks, top_artists, completed >>

DC_Return ==
    /\ pc = "track"
    /\ ~MoreBatches(i, track_ids)
    /\ result' = features_data
    /\ pc' = AfterFetch
    /\ UNCHANGED << entry, track_ids, chunk_size, i, j, features_data, trace,
                    top_tracks, top_artists, completed >>

-----------------------------------------------------------------------------
(* data_collection.collect_and_save_user_data *)

\* the genres of one artist, as ', '.join(artist['genres']) keeps them
GenreLists == { <<>>, <<"rock">>, <<"rock", "pop">> }

TopTracks(ok, ids, reason) == Event("top_tracks", ids, ok, <<>>, 0, reason)
TopArtists(ok, reason) == Event("top_artists", <<>>, ok, <<>>, 0, reason)
Save(filename, ids) == Event("save", ids, TRUE, <<>>, 0, filename)
PrintLine(text) == Event("print", <<>>, TRUE, <<>>, 0, text)

\* get_user_top_items(limit=50) returned both frames
C_TopItems ==
    /\ pc = "c_top"
    /\ \E o \in AuthOutcomes, tracks \in SeqsUpTo(IdValues, MaxTop),
          artists \in SeqsUpTo(GenreLists, MaxTop) :
         /\ ClientReturned(o)
         /\ top_tracks' = tracks
         /\ top_artists' = artists
         /\ trace' = trace \o << GetSpotifyClient(o), TopTracks(TRUE, tracks, ""),
                                 TopArtists(TRUE, "") >>
    /\ pc' = "c_save"
    /\ UNCHANGED << entry, track_ids, chunk_size, i, j, features_data, result, completed >>

\* a top-items request raised: the outer except prints and the function ends
C_TopItemsFail ==
    /\ pc = "c_top"
    /\ \E o \in AuthOutcomes, e \in Reasons :
         /\ ClientReturned(o)
         /\ \/ trace' = trace \o << GetSpotifyClient(o), TopTracks(FALSE, <<>>, e),
                                    PrintLine("Error during data collection") >>
            \/ \E tracks \in SeqsUpTo(IdValues, MaxTop) :
                 trace' = trace \o << GetSpotifyClient(o), TopTracks(TRUE, tracks, ""),
                                      TopArtists(FALSE, e),
                                      PrintLine("Error during data collection") >>
    /\ pc' = "done"
    /\ UNCHANGED << entry, track_ids, chunk_size, i, j, features_data, result,
                    top_tracks, top_artists, completed >>

\* save_data(top_tracks_df, ...); save_data(top_artists_df, ...)
C_SaveBasic ==
    /\ pc = "c_save"
    /\ trace' = trace \o << Save("top_tracks.csv", top_tracks), Save("top_artists.csv", <<>>) >>
    /\ pc' = "c_features"
    /\ UNCHANGED << entry, track_ids, chunk_size, i, j, features_data, result,
                    top_tracks, top_artists, completed >>

\* track_ids = top_tracks_df['id'].tolist(); a frame built from no rows has
\* no 'id' column and the lookup raises into the inner except
C_Features ==
    /\ pc = "c_features"
    /\ IF top_tracks = <<>>
       THEN /\ trace' = Append(trace, PrintLine("Warning: Could not get audio features"))
            /\ pc' = "c_genres"
            /\ UNCHANGED track_ids
       ELSE /\ track_ids' = top_tracks
            /\ pc' = "start"
            /\ UNCHANGED trace
    /\ UNCHANGED << entry, chunk_size, i, j, features_data, result,
                    top_tracks, top_artists, completed >>

\* pd.merge(top_tracks_df, audio_features_df, on='id'): inner join, left order
RECURSIVE Merge(_, _)
Merge(left, right) ==
    IF left = <<>> THEN <<>>
    ELSE SelectSeq(right, LAMBDA f : f.id = Head(left)) \o Merge(Tail(left), right)

C_Merge ==
    /\ pc = "c_merge"
    /\ IF result # <<>>
       THEN trace' = Append(trace, Save("tracks_with_features.csv",
                                        [k \in DOMAIN Merge(top_tracks, result) |->
                                            Merge(top_tracks, result)[k].id]))
       ELSE UNCHANGED trace
    /\ pc' = "c_genres"
    /\ UNCHANGED << entry, track_ids, chunk_size, i, j, features_data, result,
                    top_tracks, top_artists, completed >>

\* genres.extend(...) over the non-blank genre strings
RECURSIVE Genres(_)
Genres(artists) ==
    IF artists = <<>> THEN <<>> ELSE Head(artists) \o Genres(Tail(artists))

\* top_artists_df['genres'] on a frame built from no rows: KeyError, outer except
C_GenresKeyError ==
    /\ pc = "c_genres"
    /\ top_artists = <<>>
    /\ trace' = Append(trace, PrintLine("Error during data collection"))
    /\ pc' = "done"
    /\ UNCHANGED << entry, track_ids, chunk_size, i, j, features_data, result,
                    top_tracks, top_artists, completed >>

\* "No genres found. Skipping recommendations." then "Data collection complete!"
C_NoGenres ==
    /\ pc = "c_genres"
    /\ top_artists # <<>> /\ Genres(top_artists) = <<>>
    /\ trace' = trace \o << PrintLine("No genres found. Skipping recommendations."),
                            PrintLine("Data collection complete!") >>
    /\ completed' = TRUE
    /\ pc' = "done"
    /\ UNCHANGED << entry, track_ids, chunk_size, i, j, features_data, result,
                    top_tracks, top_artists >>

\* line 239 reads the name spotify, which collect_and_save_user_data and the
\* module never bind: NameError, outer except
C_GenresNameError ==
    /\ pc = "c_genres"
    /\ top_artists # <<>> /\ Genres(top_artists) # <<>>
    /\ trace' = Append(trace, PrintLine("Error during data collection"))
    /\ pc' = "done"
    /\ UNCHANGED << entry, track_ids, chunk_size, i, j, features_data, result,
                    top_tracks, top_artists, completed >>

-----------------------------------------------------------------------------
(* Specifications *)

\* a caller invokes one of the two get_audio_features
Init ==
    /\ entry \in {"audio_check", "data_collection"}
    /\ track_ids \in SeqsUpTo(IdValues, MaxLen)
    /\ chunk_size \in 1..MaxChunk
    /\ pc = "start"
    /\ i = 0
    /\ j = 0
    /\ features_data = <<>>
    /\ result = NoResult
    /\ trace = <<>>
    /\ top_tracks = <<>>
    /\ top_artists = <<>>
    /\ completed = FALSE

Next ==
    \/ AC_Begin
    \/ AC_BatchOk
    \/ AC_BatchFail
    \/ AC_Return
    \/ DC_Begin
    \/ DC_TrackOk
    \/ DC_TrackFail
    \/ DC_BatchEnd
    \/ DC_Return

Spec == Init /\ [][Next]_vars

\* a caller invokes collect_and_save_user_data()
RunInit ==
    /\ entry = "collect"
    /\ track_ids = <<>>
    /\ chunk_size \in 1..MaxChunk
    /\ pc = "c_top"
    /\ i = 0
    /\ j = 0
    /\ features_data = <<>>
    /\ result = NoResult
    /\ trace = <<>>
    /\ top_tracks = <<>>
    /\ top_artists = <<>>
    /\ completed = FALSE

RunNext ==
    \/ C_TopItems
    \/ C_TopItemsFail
    \/ C_SaveBasic
    \/ C_Features
    \/ DC_Begin
    \/ DC_TrackOk
    \/ DC_TrackFail
    \/ DC_BatchEnd
    \/ DC_Return
    \/ C_Merge
    \/ C_GenresKeyError
    \/ C_NoGenres
    \/ C_GenresNameError

RunSpec == RunInit /\ [][RunNext]_vars

-----------------------------------------------------------------------------
(* Observations on a call, used by the properties below *)

IsRequest(e) == e.ev = "request"
IsSleep(e) == e.ev = "sleep"
IsErrorLine(e) == e.ev = "print"

\* the provider requests made so far, in order
Requests == SelectSeq(trace, IsRequest)
NumRequests == Len(Requests)

\* get_audio_features has returned
Returned == result # NoResult

Ceil(n, c) == (n + c - 1) \div c

Range(s) == { s[k] : k \in DOMAIN s }
NoDuplicates(s) == \A m, n \in DOMAIN s : m # n => s[m] # s[n]
IdsOf(rows) == [k \in DOMAIN rows |-> rows[k].id]
NonEmptyIds(s) == SelectSeq(s, LAMBDA x : x # "")

\* the k-th consecutive slice of chunk_size ids of the raw input, k = 1, 2, ...
RawSlice(k) ==
    [m \in 1..(Min(k * chunk_size, Len(track_ids)) - (k - 1) * chunk_size) |->
        track_ids[(k - 1) * chunk_size + m]]

RECURSIVE Flatten(_)
Flatten(ss) == IF ss = <<>> THEN <<>> ELSE Head(ss) \o Flatten(Tail(ss))

\* the ids of the requests that raised
FailedIds == UNION { Range(Requests[k].ids) : k \in { n \in DOMAIN Requests : ~Requests[n].ok } }

-----------------------------------------------------------------------------
(* C1 *)

\* C1 as stated: on return from a call with non-empty ids the provider was
\* invoked exactly ceil(|ids| / chunk_size) times.
C1_AsStated ==
    (Returned /\ track_ids # <<>>) =>
        NumRequests = Ceil(Len(track_ids), chunk_size)

\* C1 amended: audio_check's get_audio_features invokes the provider exactly
\* ceil(|ids| / chunk_size) times; data_collection's invokes it once per id,
\* |ids| times, whatever the batch size and whatever succeeds or fails.
C1_Invocations ==
    (Returned /\ track_ids # <<>>) =>
        NumRequests = IF entry = "audio_check"
                      THEN Ceil(Len(track_ids), chunk_size)
                      ELSE Len(track_ids)

C1_Witness ==
    /\ Returned /\ entry = "audio_check"
    /\ Len(track_ids) = 3 /\ chunk_size = 2 /\ NumRequests = 2
    /\ Requests[1].ok /\ ~Requests[2].ok

-----------------------------------------------------------------------------
(* C2 *)

\* a step in which a provider request raised
FailedNow ==
    \E k \in (Len(trace) + 1)..Len(trace') : IsRequest(trace'[k]) /\ ~trace'[k].ok

\* that step made one request only, kept what was collected, stayed in the
\* loop and moved on to the next chunk (audio_check) or track (data_collection)
MovesOn ==
    /\ Len(SelectSeq(trace', IsRequest)) = NumRequests + 1
    /\ features_data' = features_data
    /\ pc' = pc
    /\ IF entry = "audio_check"
       THEN i' = i + chunk_size
       ELSE i' = i /\ j' = j + 1

\* the call has returned a value, or can take a further step; and it returns
\* only after the loop has passed the end of the input
ReturnsNormally ==
    /\ Returned \/ ENABLED Next
    /\ (Returned /\ track_ids # <<>>) => i >= Len(track_ids)

\* C2: a failed provider request is followed by the next chunk, with no abort
\* and no second request for the failed one, and the call always returns a
\* value, however many requests fail.
C2_ContinuesAfterFailure == [](ReturnsNormally) /\ [][FailedNow => MovesOn]_vars

C2_Witness ==
    /\ Returned /\ NumRequests >= 2
    /\ \A k \in DOMAIN Requests : ~Requests[k].ok
    /\ result = <<>>

-----------------------------------------------------------------------------
(* C3 *)

\* rows of a returned frame that are not feature records
FailureRows(rows) == { rows[k].id : k \in { n \in DOMAIN rows : rows[n].null } }

\* C3 as stated: the returned result records as failed exactly the ids of the
\* chunks whose request failed.
C3_AsStated == Returned => FailureRows(result) = FailedIds

\* the request did not yield a feature slot the code could read: it raised, or
\* (data_collection) its answer has no element 0
Unanswered(r) == ~r.ok \/ (entry # "audio_check" /\ r.resp = <<>>)

\* the line the code prints for the k-th request when it is unanswered
ErrorLine(k) ==
    LET r == Requests[k]
        reason == IF r.ok THEN "list index out of range" ELSE r.text
    IN  IF entry = "audio_check"
        THEN [ev |-> "print", ids |-> <<>>, ok |-> TRUE, resp |-> <<>>, num |-> k, text |-> reason]
        ELSE [ev |-> "print", ids |-> r.ids, ok |-> TRUE, resp |-> <<>>, num |-> 0, text |-> reason]

RECURSIVE ErrorLinesFrom(_)
ErrorLinesFrom(k) ==
    IF k > NumRequests THEN <<>>
    ELSE (IF Unanswered(Requests[k]) THEN << ErrorLine(k) >> ELSE <<>>) \o ErrorLinesFrom(k + 1)

\* C3 amended: the value returned holds success records only and no record of
\* failures; every failed request is reported by one printed line, in request
\* order, that carries the batch number (audio_check) or the track id
\* (data_collection) and the failure reason; if every request fails the
\* returned frame is empty.
C3_FailuresArePrinted ==
    Returned =>
        /\ FailureRows(result) = {}
        /\ SelectSeq(trace, IsErrorLine) = ErrorLinesFrom(1)
        /\ (\A k \in DOMAIN Requests : ~Requests[k].ok) => result = <<>>

C3_Witness ==
    /\ Returned /\ NumRequests = 3
    /\ \A k \in DOMAIN Requests : ~Requests[k].ok /\ Requests[k].ids # <<>>
    /\ result = <<>>
    /\ Len(SelectSeq(trace, IsErrorLine)) = 3

-----------------------------------------------------------------------------
(* C4 *)

\* C4 as stated: every record of the success sequence has an id of the input
\* and no id occurs in it twice, whatever the provider returns.
C4_AsStated ==
    Returned =>
        /\ Range(IdsOf(result)) \subseteq Range(track_ids)
        /\ NoDuplicates(IdsOf(result))

\* the answer holds records of ids asked in that request only, each once
Faithful(r) ==
    /\ Range(IdsOf(NonNull(r.resp))) \subseteq Range(r.ids)
    /\ NoDuplicates(IdsOf(NonNull(r.resp)))

\* C4 amended: the code neither filters nor de-duplicates what the provider
\* returns; if every answer holds only records of the ids of its own request,
\* each once, then every record of the success sequence has an id of the
\* input, and if moreover the input holds no id twice, no id occurs twice.
C4_SubsetWhenFaithful ==
    (Returned /\ \A k \in DOMAIN Requests : Faithful(Requests[k])) =>
        /\ Range(IdsOf(result)) \subseteq Range(track_ids)
        /\ NoDuplicates(track_ids) => NoDuplicates(IdsOf(result))

C4_Witness ==
    /\ Returned /\ NoDuplicates(track_ids) /\ Len(track_ids) = 3
    /\ \A k \in DOMAIN Requests : Faithful(Requests[k])
    /\ Len(result) = 2

-----------------------------------------------------------------------------
(* C5 *)

\* C5: a call with an empty id sequence never enters the batch loop, makes no
\* provider request, takes no pause, and what it returns is the empty frame.
C5_EmptyInput ==
    track_ids = <<>> =>
        /\ pc \in {"start", "done"}
        /\ NumRequests = 0
        /\ SelectSeq(trace, IsSleep) = <<>>
        /\ pc = "done" => result = <<>>

C5_Witness == track_ids = <<>> /\ pc = "done" /\ result = <<>>

-----------------------------------------------------------------------------
(* C6 *)

\* C6 as stated: every chunk sent is non-empty and holds non-empty ids only,
\* no id is sent twice in one call, and every chunk but the last holds
\* exactly chunk_size ids.
C6_AsStated ==
    /\ \A k \in DOMAIN Requests :
         /\ Requests[k].ids # <<>>
         /\ "" \notin Range(Requests[k].ids)
    /\ NoDuplicates(Flatten([k \in DOMAIN Requests |-> Requests[k].ids]))
    /\ Returned => \A k \in 1..(NumRequests - 1) : Len(Requests[k].ids) = chunk_size

\* C6 amended: duplicates are never removed.  audio_check slices the raw input
\* first and drops the empty ids inside each slice: its k-th request carries
\* the non-empty ids of the k-th raw slice, which may be fewer than chunk_size
\* or none.  data_collection filters nothing: its k-th request carries the
\* k-th id of the input, empty or not.
C6_FilterAfterSlicing ==
    \A k \in DOMAIN Requests :
        Requests[k].ids = IF entry = "audio_check"
                          THEN NonEmptyIds(RawSlice(k))
                          ELSE << track_ids[k] >>

C6_Witness ==
    /\ Returned /\ entry = "audio_check" /\ chunk_size = 2
    /\ track_ids = << "a", "", "a" >>
    /\ NumRequests = 2
    /\ Requests[1].ids = << "a" >> /\ Requests[2].ids = << "a" >>

-----------------------------------------------------------------------------
(* C7 *)

\* C7: between any two consecutive provider requests of a call a pause is
\* taken, whether the earlier request succeeded or failed.
C7_PauseBetweenRequests ==
    \A m, n \in DOMAIN trace :
        (m < n /\ IsRequest(trace[m]) /\ IsRequest(trace[n])) =>
            \E k \in (m + 1)..(n - 1) : IsSleep(trace[k])

-----------------------------------------------------------------------------
(* C8 *)

\* what a request contributes according to the claim: the non-null records of
\* its answer if it succeeded
Contribution(r) == IF r.ok THEN NonNull(r.resp) ELSE <<>>

\* what data_collection keeps of a request: element 0 of the answer, if non-null
FirstOnly(r) == IF r.ok /\ r.resp # <<>> THEN NonNull(<< r.resp[1] >>) ELSE <<>>

\* the requests so far cover the input from its start, in input order
InInputOrder ==
    Flatten([k \in DOMAIN Requests |-> Requests[k].ids]) =
        IF entry = "audio_check"
        THEN NonEmptyIds(SubSeq(track_ids, 1, Min(NumRequests * chunk_size, Len(track_ids))))
        ELSE SubSeq(track_ids, 1, NumRequests)

\* C8 as stated: requests follow the input order and the success sequence is
\* the concatenation, in request order, of the non-null records returned by
\* the requests that succeeded.
C8_AsStated ==
    /\ InInputOrder
    /\ Returned => result = Flatten([k \in DOMAIN Requests |-> Contribution(Requests[k])])

\* C8 amended: requests follow the input order, one at a time.  For
\* audio_check the success sequence is the concatenation, in request order, of
\* the non-null records returned by the requests that succeeded;
\* data_collection asks for one id per request and keeps only the first
\* element of each answer.
C8_OrderedConcatenation ==
    /\ InInputOrder
    /\ Returned =>
         result = Flatten([k \in DOMAIN Requests |->
                             IF entry = "audio_check"
                             THEN Contribution(Requests[k])
                             ELSE FirstOnly(Requests[k])])

C8_Witness ==
    /\ Returned /\ entry = "audio_check" /\ chunk_size = 1
    /\ track_ids = << "a", "b", "a" >>
    /\ Requests[1].ok /\ ~Requests[2].ok /\ Requests[3].ok
    /\ IdsOf(result) = << "a", "a" >>
    /\ FailedIds = { "b" }

-----------------------------------------------------------------------------
(* C9, C10: collect_and_save_user_data *)

IsAuth(e) == e.ev = "auth"
IsCollection(e) == e.ev \in {"top_tracks", "top_artists", "request", "save"}

\* some get_spotify_client() did not acquire a token
AuthFailed == \E k \in DOMAIN trace : IsAuth(trace[k]) /\ ~trace[k].ok

\* C9: once credential acquisition has failed, no top-items, audio-feature or
\* recommendation request is made and no file is written.
C9_NoCollectionAfterAuthFailure ==
    \A k \in DOMAIN trace :
        (IsAuth(trace[k]) /\ ~trace[k].ok) =>
            \A n \in DOMAIN trace : n > k => ~IsCollection(trace[n])

\* C10: when authentication succeeded and the top artists carry a genre, the
\* run reaches its completion point with the recommendations saved.
C10_RunCompletes ==
    (pc = "done" /\ ~AuthFailed /\ Genres(top_artists) # <<>>) =>
        /\ completed
        /\ \E k \in DOMAIN trace : trace[k].ev = "save" /\ trace[k].text = "recommendations.csv"

====
